---- MODULE Spec2Model ----
(***************************************************************************)
(* A model of autoHTN.py: the HTN domain compiler (operators and methods   *)
(* synthesised from crafting recipes, the have_enough / produce methods,   *)
(* the pruning checks) and of the depth-first task-decomposition engine    *)
(* that it drives.                                                         *)
(*                                                                         *)
(* Conventions.                                                            *)
(*  - A Python dict is a sequence of <<key, value>> pairs with distinct    *)
(*    keys, in insertion order (the order Python iterates it in).          *)
(*  - A Python string that the code builds or takes apart (recipe names,   *)
(*    task names) is a sequence of tokens; '+' and f-strings are \o and    *)
(*    str.replace(' ', '_') maps the token " " to "_".  Item and tool      *)
(*    names, which the code only compares and looks up, are plain strings. *)
(*  - A task is a tuple <<name, ID, ...>> as in the code.                  *)
(*  - A call's outcome is a record [ok, exc, sub]: exc # "none" is a       *)
(*    raised exception, ok = FALSE is the return value False, otherwise    *)
(*    sub is the returned sub-task list.                                   *)
(***************************************************************************)
EXTENDS Integers, Sequences, FiniteSets, TLC

\* ------------------------------------------------------------------ bounds
MaxInit == 1    \* largest Initial quantity drawn for the unit harness
MaxTime == 3    \* largest Problem.Time drawn for the unit harness
MaxQty == 4     \* cap on a counter in the unit harness (guards CallOperator)
MaxNum == 2     \* largest num drawn for a have_enough task in the unit harness
MaxPlan == 6    \* longest operator sequence tried when deciding whether a goal is reachable
MaxDepth == 40  \* search depth at which the interpreter's recursion limit is hit

\* ------------------------------------------------------------ dict helpers
Keys(d) == {d[i][1] : i \in DOMAIN d}

Get(d, k, default) ==
    IF k \in Keys(d) THEN d[CHOOSE i \in DOMAIN d : d[i][1] = k][2] ELSE default

Max(a, b) == IF a >= b THEN a ELSE b

\* str.replace(' ', '_') on a token sequence
Replace(s) == [i \in DOMAIN s |-> IF s[i] = " " THEN "_" ELSE s[i]]

ID == "agent"

Rule(name, produces, requires, consumes, time) ==
    [name |-> name, Produces |-> produces, Requires |-> requires,
     Consumes |-> consumes, Time |-> time]

\* ------------------------------------------------------------------ state
\* pyhop.State built by set_up_state: an attribute per item and tool holding
\* {ID: quantity}, time = {ID: Time}, and made_<tool> = {ID: False} per tool.
HasAttr(state, name) == name \in DOMAIN state.qty

RECURSIVE SetInitial(_, _, _, _)
SetInitial(initial, i, qty, id) ==
    IF i > Len(initial) THEN qty
    ELSE SetInitial(initial, i + 1,
                    [qty EXCEPT ![initial[i][1]] = (id :> initial[i][2])], id)

set_up_state(d, id) ==
    LET names == {d.Items[i] : i \in DOMAIN d.Items}
                   \cup {d.Tools[i] : i \in DOMAIN d.Tools}
        zero  == [n \in names |-> (id :> 0)]
    IN  [time |-> (id :> d.Problem.Time),
         qty  |-> SetInitial(d.Problem.Initial, 1, zero, id),
         made |-> [t \in {d.Tools[i] : i \in DOMAIN d.Tools} |-> (id :> FALSE)]]

set_up_goals(d, id) ==
    [i \in DOMAIN d.Problem.Goal |->
        <<(<<"have_enough">>), id, d.Problem.Goal[i][1], d.Problem.Goal[i][2]>>]

\* ------------------------------------------------------- have_enough methods
False == [ok |-> FALSE, exc |-> "none", sub |-> <<>>]

Ret(sub) == [ok |-> TRUE, exc |-> "none", sub |-> sub]

Raise(e) == [ok |-> FALSE, exc |-> e, sub |-> <<>>]

\* mutant: the comparison made strict
check_enough_Strict(state, id, item, num) ==
    IF ~HasAttr(state, item) THEN Raise("AttributeError")
    ELSE IF state.qty[item][id] > num THEN Ret(<<>>)
    ELSE False

check_enough(state, id, item, num) ==
    IF ~HasAttr(state, item) THEN Raise("AttributeError")
    ELSE IF state.qty[item][id] >= num THEN Ret(<<>>)
    ELSE False

\* mutant: production requested, the re-check dropped
produce_enough_NoRecheck(state, id, item, num) ==
    Ret(<< <<(<<"produce">>), id, item>> >>)

produce_enough(state, id, item, num) ==
    Ret(<< <<(<<"produce">>), id, item>>, <<(<<"have_enough">>), id, item, num>> >>)

\* produce: the returned outcome, and the state it leaves (the made_ flag is
\* set in place, on the state object it was handed)
produce(state, id, item) ==
    IF item \in DOMAIN state.made /\ state.made[item][id] THEN False
    ELSE Ret(<< <<(<<"produce_", item>>), id>> >>)

produceState(state, id, item) ==
    IF item \in DOMAIN state.made /\ ~state.made[item][id]
    THEN [state EXCEPT !.made[item][id] = TRUE]
    ELSE state

\* ----------------------------------------------------------------- operator
\* The loops over requires (46-48) and consumes (51-53): TRUE iff none fails.
RECURSIVE AllAtLeast(_, _, _, _)
AllAtLeast(d, i, state, id) ==
    IF i > Len(d) THEN TRUE
    ELSE IF state.qty[d[i][1]][id] < d[i][2] THEN FALSE
    ELSE AllAtLeast(d, i + 1, state, id)

RECURSIVE ApplyConsumes(_, _, _, _)
ApplyConsumes(d, i, state, id) ==
    IF i > Len(d) THEN state
    ELSE ApplyConsumes(d, i + 1,
            [state EXCEPT !.qty[d[i][1]][id] = @ - d[i][2]], id)

\* mutant: the produced amount assigned instead of added
RECURSIVE ApplyProduces_Assign(_, _, _, _)
ApplyProduces_Assign(d, i, state, id) ==
    IF i > Len(d) THEN state
    ELSE ApplyProduces_Assign(d, i + 1,
            [state EXCEPT !.qty[d[i][1]][id] = d[i][2]], id)

RECURSIVE ApplyProduces(_, _, _, _)
ApplyProduces(d, i, state, id) ==
    IF i > Len(d) THEN state
    ELSE ApplyProduces(d, i + 1,
            [state EXCEPT !.qty[d[i][1]][id] = @ + d[i][2]], id)

\* mutant: the time check left out
OperatorApplicable_NoTime(rule, state, id) ==
    /\ AllAtLeast(rule.Requires, 1, state, id)
    /\ AllAtLeast(rule.Consumes, 1, state, id)

OperatorApplicable(rule, state, id) ==
    /\ AllAtLeast(rule.Requires, 1, state, id)
    /\ AllAtLeast(rule.Consumes, 1, state, id)
    /\ ~(state.time[id] < rule.Time)

\* mutant: time checked only after the consumed items were taken
OperatorState_TimeCheckedLate(rule, state, id) ==
    IF ~(AllAtLeast(rule.Requires, 1, state, id) /\ AllAtLeast(rule.Consumes, 1, state, id))
    THEN state
    ELSE LET s1 == ApplyConsumes(rule.Consumes, 1, state, id)
             s2 == ApplyProduces(rule.Produces, 1, s1, id)
         IN  IF state.time[id] < rule.Time THEN s1
             ELSE [s2 EXCEPT !.time[id] = @ - rule.Time]

\* the state the operator leaves in the object it was handed
OperatorState(rule, state, id) ==
    IF ~OperatorApplicable(rule, state, id) THEN state
    ELSE LET s1 == ApplyConsumes(rule.Consumes, 1, state, id)
             s2 == ApplyProduces(rule.Produces, 1, s1, id)
         IN  [s2 EXCEPT !.time[id] = @ - rule.Time]

\* its return value: False, or the (truthy) state
Operator(rule, state, id) ==
    IF OperatorApplicable(rule, state, id) THEN Ret(<<>>) ELSE False

OpName(name) == <<"op_">> \o Replace(name)

\* declare_operators: the (name, recipe) list handed to the engine
DeclaredOperators(d) ==
    [i \in DOMAIN d.Recipes |-> [name |-> OpName(d.Recipes[i].name), rule |-> i]]

\* ------------------------------------------------------------------- method
_consumes_order(consumes) == consumes

HaveEnoughTasks(d, id) ==
    [i \in DOMAIN d |-> <<(<<"have_enough">>), id, d[i][1], d[i][2]>>]

\* mutant: the operator task named without normalising the recipe name
Method_RawName(rule, state, id) ==
    Ret(HaveEnoughTasks(_consumes_order(rule.Consumes), id)
          \o HaveEnoughTasks(rule.Requires, id)
          \o << <<(<<"op_">> \o rule.name), id>> >>)

Method(rule, state, id) ==
    Ret(HaveEnoughTasks(_consumes_order(rule.Consumes), id)
          \o HaveEnoughTasks(rule.Requires, id)
          \o << <<(<<"op_">> \o Replace(rule.name)), id>> >>)

\* ------------------------------------------------------------ rule data
\* The rule data of the unit harness: every shape of recipe (no inputs, one
\* and two Consumes, a Requires, an item both consumed and produced, Time 0).
UnitRecipes ==
    << Rule(<<"punch", " ", "for", " ", "wood">>, << <<"wood", 1>> >>, <<>>, <<>>, 1),
       Rule(<<"craft", " ", "plank">>, << <<"plank", 2>> >>, <<>>, << <<"wood", 1>> >>, 1),
       Rule(<<"craft", " ", "bench">>, << <<"bench", 1>> >>, <<>>, << <<"plank", 2>> >>, 1),
       Rule(<<"bench", " ", "for", " ", "wood">>, << <<"wood", 2>> >>,
            << <<"bench", 1>> >>, <<>>, 2),
       Rule(<<"recycle", " ", "plank">>, << <<"plank", 1>>, <<"wood", 1>> >>,
            << <<"bench", 1>> >>, << <<"plank", 2>>, <<"wood", 1>> >>, 0) >>

UnitItems == <<"wood", "plank">>

UnitTools == <<"bench">>

UnitNames == {"wood", "plank", "bench"}

UnitData(f, t) ==
    [Items |-> UnitItems, Tools |-> UnitTools, Recipes |-> UnitRecipes,
     Problem |-> [Initial |-> << <<"wood", f["wood"]>>, <<"plank", f["plank"]>>,
                                 <<"bench", f["bench"]>> >>,
                  Goal |-> << <<"plank", 1>> >>, Time |-> t]]

\* ------------------------------------------------------- method registration
DictSet(d, k, v) ==
    IF k \in Keys(d) THEN [j \in DOMAIN d |-> IF d[j][1] = k THEN <<k, v>> ELSE d[j]]
    ELSE Append(d, <<k, v>>)

\* sorted(seq, key=...) / list.sort(key=...): stable, ascending; keys[i] is the
\* key of seq[i]
StableSort(seq, keys) ==
    LET rank(i) == 1 + Cardinality({j \in DOMAIN seq :
                        keys[j] < keys[i] \/ (keys[j] = keys[i] /\ j < i)})
    IN  [p \in DOMAIN seq |-> seq[CHOOSE i \in DOMAIN seq : rank(i) = p]]

RecipeMethod(i) == [fn |-> "recipe", rule |-> i]

\* lines 128-134: methods_by_task, keyed by the FIRST product of each recipe
RECURSIVE methods_by_task(_, _, _)
methods_by_task(d, i, acc) ==
    IF i > Len(d.Recipes) THEN acc
    ELSE LET task == <<"produce_", d.Recipes[i].Produces[1][1]>>
         IN  methods_by_task(d, i + 1,
                DictSet(acc, task, Append(Get(acc, task, <<>>), RecipeMethod(i))))

\* lines 137-139: each list sorted by Time, then registered under its task
RECURSIVE RegisterSorted(_, _, _, _)
RegisterSorted(d, by_task, i, table) ==
    IF i > Len(by_task) THEN table
    ELSE LET ms == by_task[i][2]
             sorted == StableSort(ms, [j \in DOMAIN ms |-> d.Recipes[ms[j].rule].Time])
         IN  RegisterSorted(d, by_task, i + 1, DictSet(table, by_task[i][1], sorted))

declare_methods(d, table) == RegisterSorted(d, methods_by_task(d, 1, <<>>), 1, table)

\* lines 75-80: the engine keys each operator by its __name__; a later one with
\* the same name replaces the earlier
RECURSIVE RegisterOperators(_, _, _)
RegisterOperators(ops, i, table) ==
    IF i > Len(ops) THEN table
    ELSE RegisterOperators(ops, i + 1, DictSet(table, ops[i].name, ops[i].rule))

declare_operators(d, table) == RegisterOperators(DeclaredOperators(d), 1, table)

\* ----------------------------------------------------------- pruning checks
goal_items(d) == Keys(d.Problem.Goal)

\* wood_needed (lines 176-179) times 8, to stay in the integers
wood_needed8(d) ==
    8 * Get(d.Problem.Goal, "wood", 0) + 2 * Get(d.Problem.Goal, "plank", 0)
      + Get(d.Problem.Goal, "stick", 0)

is_producing(task, name) ==
    \/ task[1] = <<"produce_", name>>
    \/ (task[1] = <<"produce">> /\ task[3] = name)

Bool(b) == [exc |-> "none", val |-> b]

prune_iron_axe(d, state, curr_task, id) ==
    Bool(is_producing(curr_task, "iron_axe") /\ "iron_axe" \notin goal_items(d))

prune_axes(d, state, curr_task, id) ==
    IF is_producing(curr_task, "wooden_axe") \/ is_producing(curr_task, "stone_axe")
    THEN IF Len(curr_task) < 3 THEN [exc |-> "IndexError", val |-> FALSE]
         ELSE IF curr_task[3] \in goal_items(d) THEN Bool(FALSE)
         ELSE IF ~HasAttr(state, "wood") THEN [exc |-> "AttributeError", val |-> FALSE]
         ELSE \* remaining * 4 <= time, with remaining = max(0, wood_needed - wood)
              Bool(Max(0, wood_needed8(d) - 8 * state.qty["wood"][id]) * 4
                     <= 8 * state.time[id])
    ELSE Bool(FALSE)

CallCheck(c, d, state, curr_task, id) ==
    IF c = "prune_iron_axe" THEN prune_iron_axe(d, state, curr_task, id)
    ELSE prune_axes(d, state, curr_task, id)

\* ------------------------------------------------------------------ ranking
_ancestor_items(calling_stack) ==
    {calling_stack[i][3] : i \in {j \in DOMAIN calling_stack :
        /\ calling_stack[j][1] \in {<<"have_enough">>, <<"produce">>}
        /\ Len(calling_stack[j]) >= 3}}

score(d, m, ancestors) ==
    LET requires == Keys(d.Recipes[m.rule].Requires)
    IN  (IF requires \cap ancestors # {} THEN 1000 ELSE 0)
          + Cardinality(requires) * 2 + d.Recipes[m.rule].Time

get_custom_method_order(d, curr_task, calling_stack, ms) ==
    IF ~(curr_task[1][1] = "produce_") THEN ms
    ELSE StableSort(ms, [j \in DOMAIN ms |->
                            score(d, ms[j], _ancestor_items(calling_stack))])

\* ------------------------------------------------------------ problem data
Problem(initial, goal, time) == [Initial |-> initial, Goal |-> goal, Time |-> time]

GatherWood == Rule(<<"gather", " ", "wood">>, << <<"wood", 1>> >>, <<>>, <<>>, 1)

\* the example of the specification: one recipe, Goal wood=goal
WoodDomain(goal, time) ==
    [Items |-> <<"wood">>, Tools |-> <<>>, Recipes |-> <<GatherWood>>,
     Problem |-> Problem(<<>>, << <<"wood", goal>> >>, time)]

\* two goals, the second one's production consumes the first one's item
TwoGoals ==
    [Items |-> <<"wood", "plank">>, Tools |-> <<>>,
     Recipes |-> <<GatherWood,
                   Rule(<<"craft", " ", "plank">>, << <<"plank", 4>> >>, <<>>,
                        << <<"wood", 1>> >>, 1)>>,
     Problem |-> Problem(<<>>, << <<"wood", 1>>, <<"plank", 1>> >>, 5)]

\* a true cycle: ore needs the tool, the tool's only recipe needs ore
ToolCycle(tool, time) ==
    [Items |-> <<"wood">>, Tools |-> <<tool>>,
     Recipes |-> <<Rule(<<tool, " ", "for", " ", "wood">>, << <<"wood", 1>> >>,
                        << <<tool, 1>> >>, <<>>, 1),
                   Rule(<<"craft", " ", tool>>, << <<tool, 1>> >>, <<>>,
                        << <<"wood", 1>> >>, 1)>>,
     Problem |-> Problem(<<>>, << <<"wood", 1>> >>, time)]

\* the same cycle with an acyclic alternative for wood, slower than the tool
ToolCycleAlt(tool) ==
    [ToolCycle(tool, 5) EXCEPT
        !.Recipes = Append(@, Rule(<<"punch", " ", "for", " ", "wood">>,
                                   << <<"wood", 1>> >>, <<>>, <<>>, 3))]

\* no cycle: wood by hand, a tool crafted from wood, ore mined with the tool
ToolChain(tool, goal, time) ==
    [Items |-> <<"wood", "ore">>, Tools |-> <<tool>>,
     Recipes |-> <<GatherWood,
                   Rule(<<"craft", " ", tool>>, << <<tool, 1>> >>, <<>>,
                        << <<"wood", 1>> >>, 1),
                   Rule(<<"mine", " ", "ore">>, << <<"ore", 1>> >>,
                        << <<tool, 1>> >>, <<>>, 1)>>,
     Problem |-> Problem(<<>>, goal, time)]

\* two items that are each made from the other, none in stock
ItemCycle ==
    [Items |-> <<"dust", "ingot">>, Tools |-> <<>>,
     Recipes |-> <<Rule(<<"smelt", " ", "ingot">>, << <<"ingot", 1>> >>, <<>>,
                        << <<"dust", 1>> >>, 1),
                   Rule(<<"grind", " ", "dust">>, << <<"dust", 1>> >>, <<>>,
                        << <<"ingot", 1>> >>, 1)>>,
     Problem |-> Problem(<<>>, << <<"ingot", 1>> >>, 5)]

\* a Goal that names an item absent from Items and Tools
UndeclaredGoal ==
    [WoodDomain(1, 5) EXCEPT !.Problem.Goal = << <<"wood", 1>>, <<"stone", 1>> >>]

\* an Initial that names an item absent from Items and Tools
UndeclaredInitial ==
    [WoodDomain(1, 5) EXCEPT !.Problem.Initial = << <<"stone", 1>> >>]

\* a recipe with two products; the goal item is only ever a second product
ByProduct ==
    [Items |-> <<"wood", "plank", "dust">>, Tools |-> <<>>,
     Recipes |-> <<GatherWood,
                   Rule(<<"saw", " ", "plank">>, << <<"plank", 2>>, <<"dust", 1>> >>,
                        <<>>, << <<"wood", 1>> >>, 1)>>,
     Problem |-> Problem(<<>>, << <<"dust", 1>> >>, 5)]

\* two recipe names that normalise to the same identifier
DuplicateNames ==
    [Items |-> <<"wood">>, Tools |-> <<>>,
     Recipes |-> <<GatherWood,
                   Rule(<<"gather", "_", "wood">>, << <<"wood", 2>> >>, <<>>, <<>>, 2)>>,
     Problem |-> Problem(<<>>, << <<"wood", 1>> >>, 5)]

\* a recipe whose second consumable is made from its first
SharedStock ==
    [Items |-> <<"plank", "stick", "handle">>, Tools |-> <<>>,
     Recipes |-> <<Rule(<<"saw", " ", "plank">>, << <<"plank", 1>> >>, <<>>, <<>>, 1),
                   Rule(<<"cut", " ", "stick">>, << <<"stick", 1>> >>, <<>>,
                        << <<"plank", 1>> >>, 1),
                   Rule(<<"craft", " ", "handle">>, << <<"handle", 1>> >>, <<>>,
                        << <<"plank", 1>>, <<"stick", 1>> >>, 1)>>,
     Problem |-> Problem(<<>>, << <<"handle", 1>> >>, 4)]

Domains ==
    { UndeclaredInitial, ByProduct, DuplicateNames, SharedStock,
      WoodDomain(3, 5), WoodDomain(3, 2), TwoGoals,
      ToolCycle("pickaxe", 5), ToolCycle("wooden_axe", 3), ToolCycle("wooden_axe", 5),
      ToolCycleAlt("pickaxe"),
      ToolChain("pickaxe", << <<"ore", 2>> >>, 6),
      ToolChain("pickaxe", << <<"pickaxe", 2>> >>, 4),
      ToolChain("iron_axe", << <<"ore", 1>> >>, 5),
      ItemCycle, UndeclaredGoal }

\* ------------------------------------------------------------------ machine
VARIABLES
    data,       \* the loaded rule data (json.load)
    pc,         \* position in the entry sequence
    operators,  \* the engine's operator table: name -> recipe
    methods,    \* the engine's method table: task name -> method list
    checks,     \* the engine's pruning checks, in registration order
    ordering,   \* the engine's ranking callback ("none": not registered)
    goals,      \* the goal task list
    heap,       \* the state objects alive in the search
    stack,      \* the activations of seek_plan
    result,     \* what the search returned
    ustate,     \* unit harness: the state object the calls are made on
    last        \* unit harness: the last call, the state before it, its outcome

vars == <<data, pc, operators, methods, checks, ordering, goals, heap, stack,
          result, ustate, last>>

engine == <<operators, methods, checks, ordering, goals, heap, stack, result>>

\* the method table at import time (lines 20 and 34)
ImportedMethods ==
    << <<(<<"have_enough">>), <<[fn |-> "check_enough", rule |-> 0],
                                [fn |-> "produce_enough", rule |-> 0]>> >>,
       <<(<<"produce">>), <<[fn |-> "produce", rule |-> 0]>> >> >>

NoCall == [fn |-> "none", rule |-> 0, item |-> "", num |-> 0]

NoResult == [kind |-> "none", plan |-> <<>>, exc |-> "none"]

\* ------------------------------------------------------------ unit harness
InitUnit ==
    /\ \E f \in [UnitNames -> 0..MaxInit], t \in 0..MaxTime :
          /\ data = UnitData(f, t)
          /\ ustate = set_up_state(UnitData(f, t), ID)
          /\ last = [call |-> NoCall, pre |-> set_up_state(UnitData(f, t), ID),
                     ret |-> False]
    /\ pc = "unit"
    /\ methods = ImportedMethods
    /\ operators = <<>> /\ checks = <<>> /\ ordering = "none" /\ goals = <<>>
    /\ heap = <<>> /\ stack = <<>> /\ result = NoResult

CallOperator(i) ==
    LET rule == data.Recipes[i]
        post == OperatorState(rule, ustate, ID)
    IN  /\ pc = "unit"
        /\ \A n \in DOMAIN post.qty : post.qty[n][ID] <= MaxQty
        /\ ustate' = post
        /\ last' = [call |-> [fn |-> "operator", rule |-> i, item |-> "", num |-> 0],
                    pre |-> ustate, ret |-> Operator(rule, ustate, ID)]
        /\ UNCHANGED <<data, pc, engine>>

CallCheckEnough(item, num) ==
    /\ pc = "unit"
    /\ last' = [call |-> [fn |-> "check_enough", rule |-> 0, item |-> item, num |-> num],
                pre |-> ustate, ret |-> check_enough(ustate, ID, item, num)]
    /\ UNCHANGED <<data, pc, engine, ustate>>

CallProduceEnough(item, num) ==
    /\ pc = "unit"
    /\ last' = [call |-> [fn |-> "produce_enough", rule |-> 0, item |-> item, num |-> num],
                pre |-> ustate, ret |-> produce_enough(ustate, ID, item, num)]
    /\ UNCHANGED <<data, pc, engine, ustate>>

CallProduce(item) ==
    /\ pc = "unit"
    /\ ustate' = produceState(ustate, ID, item)
    /\ last' = [call |-> [fn |-> "produce", rule |-> 0, item |-> item, num |-> 0],
                pre |-> ustate, ret |-> produce(ustate, ID, item)]
    /\ UNCHANGED <<data, pc, engine>>

CallMethod(i) ==
    /\ pc = "unit"
    /\ last' = [call |-> [fn |-> "method", rule |-> i, item |-> "", num |-> 0],
                pre |-> ustate, ret |-> Method(data.Recipes[i], ustate, ID)]
    /\ UNCHANGED <<data, pc, engine, ustate>>

\* ------------------------------------------------------------- entry glue
\* lines 235-243, one action per call
Init ==
    /\ data \in Domains
    /\ pc = "set_up_state"
    /\ methods = ImportedMethods
    /\ operators = <<>> /\ checks = <<>> /\ ordering = "none" /\ goals = <<>>
    /\ heap = <<>> /\ stack = <<>> /\ result = NoResult
    /\ ustate = set_up_state(WoodDomain(0, 0), ID)
    /\ last = [call |-> NoCall, pre |-> set_up_state(WoodDomain(0, 0), ID), ret |-> False]

\* line 214: getattr raises for an Initial entry that is no item and no tool
SetUpStateRaises ==
    /\ pc = "set_up_state"
    /\ ~(Keys(data.Problem.Initial) \subseteq
            {data.Items[i] : i \in DOMAIN data.Items}
              \cup {data.Tools[i] : i \in DOMAIN data.Tools})
    /\ result' = [kind |-> "exception", plan |-> <<>>, exc |-> "AttributeError"]
    /\ pc' = "done"
    /\ UNCHANGED <<data, operators, methods, checks, ordering, goals, heap, stack,
                   ustate, last>>

SetUpState ==
    /\ pc = "set_up_state"
    /\ Keys(data.Problem.Initial) \subseteq
          {data.Items[i] : i \in DOMAIN data.Items}
            \cup {data.Tools[i] : i \in DOMAIN data.Tools}
    /\ heap' = <<set_up_state(data, ID)>>
    /\ pc' = "set_up_goals"
    /\ UNCHANGED <<data, operators, methods, checks, ordering, goals, stack, result,
                   ustate, last>>

SetUpGoals ==
    /\ pc = "set_up_goals"
    /\ goals' = set_up_goals(data, ID)
    /\ pc' = "declare_operators"
    /\ UNCHANGED <<data, operators, methods, checks, ordering, heap, stack, result,
                   ustate, last>>

DeclareOperators ==
    /\ pc = "declare_operators"
    /\ operators' = declare_operators(data, operators)
    /\ pc' = "declare_methods"
    /\ UNCHANGED <<data, methods, checks, ordering, goals, heap, stack, result,
                   ustate, last>>

DeclareMethods ==
    /\ pc = "declare_methods"
    /\ methods' = declare_methods(data, methods)
    /\ pc' = "add_heuristics"
    /\ UNCHANGED <<data, operators, checks, ordering, goals, heap, stack, result,
                   ustate, last>>

AddHeuristics ==
    /\ pc = "add_heuristics"
    /\ checks' = checks \o <<"prune_iron_axe", "prune_axes">>
    /\ pc' = "pyhop"
    /\ UNCHANGED <<data, operators, methods, ordering, goals, heap, stack, result,
                   ustate, last>>

\* ------------------------------------------------------------------- engine
\* The task-decomposition engine: depth-first, sub-tasks left to right,
\* methods in table order (or in the ranking callback's order when one is
\* registered), every check consulted before a task is expanded, an operator
\* run on a copy of the state, a method run on the state itself.
Frame(st, tasks, plan, depth, cs, own) ==
    [st |-> st, tasks |-> tasks, plan |-> plan, depth |-> depth, cs |-> cs,
     phase |-> "enter", mi |-> 1, own |-> own]

Top == stack[Len(stack)]

SetTop(f) == [stack EXCEPT ![Len(stack)] = f]

Pyhop ==
    /\ pc = "pyhop"
    /\ stack' = <<Frame(1, goals, <<>>, 0, <<>>, FALSE)>>
    /\ pc' = "seek"
    /\ UNCHANGED <<data, operators, methods, checks, ordering, goals, heap, result,
                   ustate, last>>

Finish(r) ==
    /\ result' = r
    /\ pc' = "done"
    /\ UNCHANGED <<data, operators, methods, checks, ordering, goals, heap, stack,
                   ustate, last>>

\* seek_plan returns False: the caller goes on with its next alternative; the
\* outermost call's False is the search's result
ReturnFalse ==
    IF Len(stack) = 1
    THEN Finish([kind |-> "failure", plan |-> <<>>, exc |-> "none"])
    ELSE /\ stack' = SubSeq(stack, 1, Len(stack) - 1)
         /\ heap' = IF Top.own THEN SubSeq(heap, 1, Top.st - 1) ELSE heap
         /\ UNCHANGED <<data, pc, operators, methods, checks, ordering, goals, result,
                        ustate, last>>

\* the checks in registration order: the first to raise or to return True decides
RECURSIVE RunChecks(_, _, _, _, _)
RunChecks(cs, i, d, state, task) ==
    IF i > Len(cs) THEN "pass"
    ELSE LET r == CallCheck(cs[i], d, state, task, ID)
         IN  IF r.exc # "none" THEN r.exc
             ELSE IF r.val THEN "prune"
             ELSE RunChecks(cs, i + 1, d, state, task)

SeekPlanFound ==
    /\ pc = "seek" /\ Top.phase = "enter" /\ Top.tasks = <<>>
    /\ Finish([kind |-> "plan", plan |-> Top.plan, exc |-> "none"])

SeekRecursionError ==
    /\ pc = "seek" /\ Top.phase = "enter" /\ Top.tasks # <<>>
    /\ Top.depth >= MaxDepth
    /\ Finish([kind |-> "exception", plan |-> <<>>, exc |-> "RecursionError"])

CanExpand == pc = "seek" /\ Top.phase = "enter" /\ Top.tasks # <<>> /\ Top.depth < MaxDepth

SeekCheckRaises ==
    /\ CanExpand
    /\ RunChecks(checks, 1, data, heap[Top.st], Top.tasks[1]) \notin {"pass", "prune"}
    /\ Finish([kind |-> "exception", plan |-> <<>>,
               exc |-> RunChecks(checks, 1, data, heap[Top.st], Top.tasks[1])])

SeekPruned ==
    /\ CanExpand
    /\ RunChecks(checks, 1, data, heap[Top.st], Top.tasks[1]) = "prune"
    /\ ReturnFalse

SeekChecksPass ==
    /\ CanExpand
    /\ RunChecks(checks, 1, data, heap[Top.st], Top.tasks[1]) = "pass"
    /\ stack' = SetTop([Top EXCEPT !.phase = "operator"])
    /\ UNCHANGED <<data, pc, operators, methods, checks, ordering, goals, heap, result,
                   ustate, last>>

IsApplicableOperator(f) ==
    /\ f.tasks[1][1] \in Keys(operators)
    /\ OperatorApplicable(data.Recipes[Get(operators, f.tasks[1][1], 0)],
                          heap[f.st], f.tasks[1][2])

SeekApplyOperator ==
    /\ pc = "seek" /\ Top.phase = "operator"
    /\ IsApplicableOperator(Top)
    /\ LET task1 == Top.tasks[1]
           rule  == data.Recipes[Get(operators, task1[1], 0)]
       IN  /\ heap' = Append(heap, OperatorState(rule, heap[Top.st], task1[2]))
           /\ stack' = Append(SetTop([Top EXCEPT !.phase = "methods"]),
                              Frame(Len(heap) + 1, Tail(Top.tasks),
                                    Append(Top.plan, task1), Top.depth + 1, Top.cs, TRUE))
    /\ UNCHANGED <<data, pc, operators, methods, checks, ordering, goals, result,
                   ustate, last>>

SeekNoOperator ==
    /\ pc = "seek" /\ Top.phase = "operator"
    /\ ~IsApplicableOperator(Top)
    /\ stack' = SetTop([Top EXCEPT !.phase = "methods"])
    /\ UNCHANGED <<data, pc, operators, methods, checks, ordering, goals, heap, result,
                   ustate, last>>

\* the methods the engine tries for the frame's first task, in order
Relevant(f) ==
    LET ms == Get(methods, f.tasks[1][1], <<>>)
    IN  IF ordering = "none" THEN ms
        ELSE get_custom_method_order(data, f.tasks[1], f.cs, ms)

CallMethodRet(m, d, state, task) ==
    CASE m.fn = "check_enough"   -> check_enough(state, task[2], task[3], task[4])
      [] m.fn = "produce_enough" -> produce_enough(state, task[2], task[3], task[4])
      [] m.fn = "produce"        -> produce(state, task[2], task[3])
      [] m.fn = "recipe"         -> Method(d.Recipes[m.rule], state, task[2])

CallMethodState(m, d, state, task) ==
    IF m.fn = "produce" THEN produceState(state, task[2], task[3]) ELSE state

InMethods == pc = "seek" /\ Top.phase = "methods" /\ Top.mi <= Len(Relevant(Top))

SeekMethodRaises ==
    /\ InMethods
    /\ CallMethodRet(Relevant(Top)[Top.mi], data, heap[Top.st], Top.tasks[1]).exc # "none"
    /\ Finish([kind |-> "exception", plan |-> <<>>,
               exc |-> CallMethodRet(Relevant(Top)[Top.mi], data, heap[Top.st],
                                     Top.tasks[1]).exc])

SeekMethodFalse ==
    /\ InMethods
    /\ LET m == Relevant(Top)[Top.mi]
           r == CallMethodRet(m, data, heap[Top.st], Top.tasks[1])
       IN  /\ r.exc = "none" /\ ~r.ok
           /\ heap' = [heap EXCEPT ![Top.st] =
                          CallMethodState(m, data, heap[Top.st], Top.tasks[1])]
           /\ stack' = SetTop([Top EXCEPT !.mi = @ + 1])
    /\ UNCHANGED <<data, pc, operators, methods, checks, ordering, goals, result,
                   ustate, last>>

SeekMethodExpand ==
    /\ InMethods
    /\ LET m == Relevant(Top)[Top.mi]
           r == CallMethodRet(m, data, heap[Top.st], Top.tasks[1])
       IN  /\ r.exc = "none" /\ r.ok
           /\ heap' = [heap EXCEPT ![Top.st] =
                          CallMethodState(m, data, heap[Top.st], Top.tasks[1])]
           /\ stack' = Append(SetTop([Top EXCEPT !.mi = @ + 1]),
                              Frame(Top.st, r.sub \o Tail(Top.tasks), Top.plan,
                                    Top.depth + 1, Append(Top.cs, Top.tasks[1]), FALSE))
    /\ UNCHANGED <<data, pc, operators, methods, checks, ordering, goals, result,
                   ustate, last>>

SeekExhausted ==
    /\ pc = "seek" /\ Top.phase = "methods" /\ Top.mi > Len(Relevant(Top))
    /\ ReturnFalse

Next ==
    \/ SetUpStateRaises
    \/ SetUpState \/ SetUpGoals \/ DeclareOperators \/ DeclareMethods
    \/ AddHeuristics \/ Pyhop
    \/ SeekPlanFound \/ SeekRecursionError
    \/ SeekCheckRaises \/ SeekPruned \/ SeekChecksPass
    \/ SeekApplyOperator \/ SeekNoOperator
    \/ SeekMethodRaises \/ SeekMethodFalse \/ SeekMethodExpand \/ SeekExhausted

Spec == Init /\ [][Next]_vars

NextUnit ==
    \/ \E i \in DOMAIN data.Recipes : CallOperator(i)
    \/ \E item \in DOMAIN ustate.qty, num \in 0..MaxNum : CallCheckEnough(item, num)
    \/ \E item \in DOMAIN ustate.qty, num \in 0..MaxNum : CallProduceEnough(item, num)
    \/ \E item \in DOMAIN ustate.qty : CallProduce(item)
    \/ \E i \in DOMAIN data.Recipes : CallMethod(i)

SpecUnit == InitUnit /\ [][NextUnit]_vars

\* -------------------------------------------------- search-guidance harness
\* The pruning checks and the ranking callback, called as the engine calls
\* them, on the tables that the entry sequence builds for a rule file with two
\* recipes for wood.  Neither changes the state or the tables, so a run makes
\* one call.
GuideTools == <<"wooden_axe", "stone_axe", "bench">>

GuideRequires ==
    { <<>>, << <<"wooden_axe", 1>> >>, << <<"wooden_axe", 1>>, <<"bench", 1>> >> }

GuideTimes == {1, 3, 2000}

GuideGoals == { << <<"wood", 1>> >>, << <<"wooden_axe", 1>> >> }

GuideData(r1, t1, r2, t2, wood, goal, time) ==
    [Items |-> <<"wood">>, Tools |-> GuideTools,
     Recipes |-> <<Rule(<<"way", " ", "a">>, << <<"wood", 1>> >>, r1, <<>>, t1),
                   Rule(<<"way", " ", "b">>, << <<"wood", 1>> >>, r2, <<>>, t2)>>,
     Problem |-> Problem(IF wood = 0 THEN <<>> ELSE << <<"wood", wood>> >>, goal, time)]

\* the tasks of the four shapes over the rule file's names
GuideTasks(d) ==
    LET names == {d.Items[i] : i \in DOMAIN d.Items} \cup {d.Tools[i] : i \in DOMAIN d.Tools}
    IN  {<<(<<"have_enough">>), ID, n, 1>> : n \in names}
          \cup {<<(<<"produce">>), ID, n>> : n \in names}
          \cup {<<(<<"produce_", n>>), ID>> : n \in names}
          \cup {<<OpName(d.Recipes[i].name), ID>> : i \in DOMAIN d.Recipes}

\* call chains that lead to produce_wood
GuideStacks ==
    LET up(n) == << <<(<<"have_enough">>), ID, n, 1>>, <<(<<"produce">>), ID, n>> >>
    IN  { <<>>, up("wood"),
          up("wooden_axe") \o << <<(<<"produce_", "wooden_axe">>), ID>> >> \o up("wood"),
          up("bench") \o << <<(<<"produce_", "bench">>), ID>> >> \o up("wood") }

InitGuide ==
    /\ \E r1, r2 \in GuideRequires, t1, t2 \in GuideTimes, w \in 0..MaxInit,
          g \in GuideGoals, t \in 0..MaxTime :
          /\ data = GuideData(r1, t1, r2, t2, w, g, t)
          /\ ustate = set_up_state(GuideData(r1, t1, r2, t2, w, g, t), ID)
          /\ operators = declare_operators(GuideData(r1, t1, r2, t2, w, g, t), <<>>)
          /\ methods = declare_methods(GuideData(r1, t1, r2, t2, w, g, t), ImportedMethods)
          /\ goals = set_up_goals(GuideData(r1, t1, r2, t2, w, g, t), ID)
          /\ last = [call |-> NoCall,
                     pre |-> set_up_state(GuideData(r1, t1, r2, t2, w, g, t), ID),
                     ret |-> False]
    /\ pc = "guide"
    /\ checks = <<"prune_iron_axe", "prune_axes">>
    /\ ordering = "none"
    /\ heap = <<>> /\ stack = <<>> /\ result = NoResult

\* the engine consulting one registered check on a task
CallPrune(k, task) ==
    /\ pc = "guide"
    /\ last' = [call |-> [fn |-> checks[k], task |-> task],
                pre |-> ustate,
                ret |-> CallCheck(checks[k], data, ustate, task, ID)]
    /\ pc' = "returned"
    /\ UNCHANGED <<data, engine, ustate>>

\* the ranking callback on the method list registered for the task
CallOrder(task, calling_stack) ==
    LET ms == Get(methods, task[1], <<>>)
    IN  /\ pc = "guide"
        /\ last' = [call |-> [fn |-> "get_custom_method_order", task |-> task,
                              calling_stack |-> calling_stack, methods |-> ms],
                    pre |-> ustate,
                    ret |-> get_custom_method_order(data, task, calling_stack, ms)]
        /\ pc' = "returned"
        /\ UNCHANGED <<data, engine, ustate>>

NextGuide ==
    \/ \E k \in DOMAIN checks, task \in GuideTasks(data) : CallPrune(k, task)
    \/ \E task \in GuideTasks(data), cs \in GuideStacks : CallOrder(task, cs)

SpecGuide == InitGuide /\ [][NextGuide]_vars

\* ------------------------------------------------- what the claims speak of
Names(d) == {d.Items[i] : i \in DOMAIN d.Items} \cup {d.Tools[i] : i \in DOMAIN d.Tools}

GoalHolds(d, state) ==
    \A i \in DOMAIN d.Problem.Goal :
        /\ HasAttr(state, d.Problem.Goal[i][1])
        /\ state.qty[d.Problem.Goal[i][1]][ID] >= d.Problem.Goal[i][2]

\* some sequence of at most k operator applications reaches the goal
RECURSIVE Reachable(_, _, _)
Reachable(d, state, k) ==
    \/ GoalHolds(d, state)
    \/ /\ k > 0
       /\ \E i \in DOMAIN d.Recipes :
             /\ OperatorApplicable(d.Recipes[i], state, ID)
             /\ Reachable(d, OperatorState(d.Recipes[i], state, ID), k - 1)

Satisfiable(d) == Reachable(d, set_up_state(d, ID), MaxPlan)

\* what some recipe producing a needs (Requires or Consumes)
DepsOf(d, a) ==
    UNION {Keys(d.Recipes[i].Requires) \cup Keys(d.Recipes[i].Consumes) :
              i \in {j \in DOMAIN d.Recipes : a \in Keys(d.Recipes[j].Produces)}}

RECURSIVE Closure(_, _)
Closure(d, S) ==
    LET T == S \cup UNION {DepsOf(d, a) : a \in S}
    IN  IF T = S THEN S ELSE Closure(d, T)

CyclicTools(d) ==
    {t \in {d.Tools[i] : i \in DOMAIN d.Tools} : t \in Closure(d, DepsOf(d, t))}

\* the state a plan leaves when its operators are run from a state
RECURSIVE RunPlan(_, _, _, _)
RunPlan(d, plan, i, state) ==
    IF i > Len(plan) THEN state
    ELSE RunPlan(d, plan, i + 1,
                 OperatorState(d.Recipes[Get(operators, plan[i][1], 0)], state, plan[i][2]))

FinalState == RunPlan(data, result.plan, 1, set_up_state(data, ID))

GoalDeclared(d) == goal_items(d) \subseteq Names(d)

InitialDeclared(d) == Keys(d.Problem.Initial) \subseteq Names(d)

\* the recipe of the unit harness's last call, and a recipe's preconditions as
\* the specification states them
LastRule == data.Recipes[last.call.rule]

PreconditionsHold(rule, state) ==
    /\ \A i \in DOMAIN rule.Requires : state.qty[rule.Requires[i][1]][ID] >= rule.Requires[i][2]
    /\ \A i \in DOMAIN rule.Consumes : state.qty[rule.Consumes[i][1]][ID] >= rule.Consumes[i][2]
    /\ state.time[ID] >= rule.Time

\* --------------------------------------------------------------------- C1
\* C1: an operator invoked with some precondition unmet (a Requires tool, a
\* Consumes item or the time) returns False and leaves every counter, the
\* time and every made_ flag as before the call.
C1_FailedOperatorLeavesState ==
    (last.call.fn = "operator" /\ ~PreconditionsHold(LastRule, last.pre))
        => (last.ret = False /\ ustate = last.pre)

\* an operator whose tools and items are there but whose time is not
C1_Witness ==
    /\ last.call.fn = "operator"
    /\ LastRule.Consumes # <<>>
    /\ \A i \in DOMAIN LastRule.Consumes :
          last.pre.qty[LastRule.Consumes[i][1]][ID] >= LastRule.Consumes[i][2]
    /\ \A i \in DOMAIN LastRule.Requires :
          last.pre.qty[LastRule.Requires[i][1]][ID] >= LastRule.Requires[i][2]
    /\ last.pre.time[ID] < LastRule.Time
    /\ last.ret = False

\* --------------------------------------------------------------------- C2
\* C2: an operator invoked with all preconditions met changes every counter
\* by produced minus consumed, the time by minus Time, and nothing else.
C2_OperatorEffect ==
    (last.call.fn = "operator" /\ PreconditionsHold(LastRule, last.pre))
        => /\ last.ret.ok /\ last.ret.exc = "none"
           /\ DOMAIN ustate.qty = DOMAIN last.pre.qty
           /\ \A n \in DOMAIN ustate.qty :
                 ustate.qty[n] = (ID :> (last.pre.qty[n][ID]
                                           - Get(LastRule.Consumes, n, 0)
                                           + Get(LastRule.Produces, n, 0)))
           /\ ustate.time = (ID :> (last.pre.time[ID] - LastRule.Time))
           /\ ustate.made = last.pre.made

\* a successful operator with a Requires tool and an item both consumed and produced
C2_Witness ==
    /\ last.call.fn = "operator" /\ last.ret.ok
    /\ LastRule.Requires # <<>>
    /\ Keys(LastRule.Consumes) \cap Keys(LastRule.Produces) # {}
    /\ ustate # last.pre

\* --------------------------------------------------------------------- C3
\* C3: from a state built by set_up_state with non-negative Initial and Time,
\* after any sequence of operator invocations every quantity and the
\* remaining time are >= 0.
C3_NonNegative ==
    /\ \A n \in DOMAIN ustate.qty : ustate.qty[n][ID] >= 0
    /\ ustate.time[ID] >= 0

\* a successful operator that used up the last of an item and of the time
C3_Witness ==
    /\ last.call.fn = "operator" /\ last.ret.ok
    /\ last.pre.time[ID] > 0 /\ ustate.time[ID] = 0
    /\ \E n \in DOMAIN ustate.qty : last.pre.qty[n][ID] > 0 /\ ustate.qty[n][ID] = 0

\* --------------------------------------------------------------------- C4
\* C4: whenever the search over the goal task list ends with a plan, the
\* state that plan leaves holds the required quantity of every goal item.
C4_GoalConjunction ==
    (pc = "done" /\ result.kind = "plan") => GoalHolds(data, FinalState)

\* --------------------------------------------------------------------- C5
\* C5: with no cycle among tool dependencies and a goal that some operator
\* sequence reaches within the time budget, the search ends with a plan.
C5_SatisfiableYieldsPlan ==
    (pc = "done" /\ InitialDeclared(data) /\ CyclicTools(data) = {} /\ Satisfiable(data))
        => result.kind = "plan"

\* --------------------------------------------------------------------- C6
\* C6: with no cycle among tool dependencies and a goal that no operator
\* sequence reaches, the search ends by reporting failure (it does not
\* recurse without bound).
C6_UnreachableReportsFailure ==
    (pc = "done" /\ GoalDeclared(data) /\ InitialDeclared(data)
       /\ CyclicTools(data) = {} /\ ~Satisfiable(data))
        => result.kind = "failure"

ProduceTwice(cs) ==
    \E i, j \in DOMAIN cs : i < j /\ cs[i][1] = <<"produce">> /\ cs[i] = cs[j]
                               /\ cs[i][3] \in DOMAIN heap[1].made

\* --------------------------------------------------------------------- C7
\* C7: when a tool lies on a dependency cycle the search ends with failure or
\* with a plan, and produce(T) is never expanded twice on one call chain.
C7_ToolCycleTerminates ==
    (CyclicTools(data) # {} /\ pc \in {"seek", "done"})
        => /\ \A k \in DOMAIN stack : ~ProduceTwice(stack[k].cs)
           /\ pc = "done" => result.kind \in {"failure", "plan"}

\* --------------------------------------------------------------------- C8
\* C8: for the one-recipe wood domain with Goal wood=3 and Time=5 the search
\* returns exactly three op_gather_wood invocations, leaving wood=3, time=2.
C8_WoodExample ==
    (pc = "done" /\ data = WoodDomain(3, 5))
        => /\ result.kind = "plan"
           /\ result.plan = [i \in 1..3 |-> <<(<<"op_", "gather", "_", "wood">>), ID>>]
           /\ FinalState.qty["wood"][ID] = 3 /\ FinalState.time[ID] = 2
           /\ heap[Top.st].qty = FinalState.qty /\ heap[Top.st].time = FinalState.time

C8_Witness == pc = "done" /\ data = WoodDomain(3, 5) /\ Len(result.plan) = 3

ProduceThenRecheck(item, num) ==
    << <<(<<"produce">>), ID, item>>, <<(<<"have_enough">>), ID, item, num>> >>

\* --------------------------------------------------------------------- C9
\* C9: check_enough is the first method of have_enough; with quantity >= num
\* it returns [] and leaves the state alone, so the same task, or one with a
\* smaller num, resolves to [] again; with quantity < num it returns False
\* and produce_enough returns [('produce', ID, item), ('have_enough', ID,
\* item, num)].
C9_HaveEnough ==
    /\ Get(methods, <<"have_enough">>, <<>>)[1].fn = "check_enough"
    /\ last.call.fn = "check_enough" =>
          /\ ustate = last.pre
          /\ last.pre.qty[last.call.item][ID] >= last.call.num =>
                /\ last.ret.ok /\ last.ret.exc = "none" /\ last.ret.sub = <<>>
                /\ \A n \in 0..last.call.num :
                      check_enough(ustate, ID, last.call.item, n) = last.ret
          /\ last.pre.qty[last.call.item][ID] < last.call.num =>
                /\ ~last.ret.ok /\ last.ret.exc = "none"
                /\ produce_enough(ustate, ID, last.call.item, last.call.num)
                      = Ret(ProduceThenRecheck(last.call.item, last.call.num))
    /\ last.call.fn = "produce_enough" =>
          /\ ustate = last.pre
          /\ last.ret = Ret(ProduceThenRecheck(last.call.item, last.call.num))

\* check_enough called with exactly the quantity asked for
C9_Witness ==
    /\ last.call.fn = "check_enough" /\ last.call.num > 0
    /\ last.pre.qty[last.call.item][ID] = last.call.num
    /\ last.ret.ok

Count(seq, x) == Cardinality({j \in DOMAIN seq : seq[j] = x})

\* -------------------------------------------------------------------- C10
\* C10: a recipe method returns one have_enough task per Requires entry and
\* one per Consumes entry, each with the entry's quantity, then exactly one
\* op task, last, named as declare_operators named the recipe's operator.
C10_MethodSubtasks ==
    last.call.fn = "method" =>
        LET sub  == last.ret.sub
            n    == Len(sub)
            pre  == SubSeq(sub, 1, n - 1)
            want == HaveEnoughTasks(LastRule.Requires \o LastRule.Consumes, ID)
        IN  /\ last.ret.ok /\ n >= 1
            /\ n - 1 = Len(LastRule.Requires) + Len(LastRule.Consumes)
            /\ \A j \in DOMAIN pre : Count(pre, pre[j]) = Count(want, pre[j])
            /\ \A j \in DOMAIN want :
                  /\ want[j] = <<(<<"have_enough">>), ID,
                                 (LastRule.Requires \o LastRule.Consumes)[j][1],
                                 (LastRule.Requires \o LastRule.Consumes)[j][2]>>
                  /\ Count(pre, want[j]) = Count(want, want[j])
            /\ sub[n] = <<DeclaredOperators(data)[last.call.rule].name, ID>>
            /\ sub[n][1][1] = "op_" /\ " " \notin {sub[n][1][k] : k \in DOMAIN sub[n][1]}

\* the method of a recipe with a Requires entry and two Consumes entries
C10_Witness ==
    /\ last.call.fn = "method"
    /\ Len(LastRule.Requires) = 1 /\ Len(LastRule.Consumes) = 2
    /\ Len(last.ret.sub) = 4
    /\ " " \in {LastRule.name[k] : k \in DOMAIN LastRule.name}

\* -------------------------------------------------------------------- C11
\* C11: once declare_methods has run, every recipe is registered as a method
\* of produce_<item> for every item of its Produces mapping, so every item
\* some recipe produces has at least one method.
C11_MethodForEveryProduct ==
    pc \in {"add_heuristics", "pyhop", "seek"}
        => \A i \in DOMAIN data.Recipes :
              \A item \in Keys(data.Recipes[i].Produces) :
                 LET ms == Get(methods, <<"produce_", item>>, <<>>)
                 IN  \E k \in DOMAIN ms : ms[k] = RecipeMethod(i)

\* the ranking callback was called on a produce_<item> task
Ranked == last.call.fn = "get_custom_method_order" /\ last.call.task[1][1] = "produce_"

\* a method whose Requires shares an item with the items pursued in the chain
CycleRisk(m) ==
    Keys(data.Recipes[m.rule].Requires) \cap _ancestor_items(last.call.calling_stack) # {}

ToolCount(m) == Cardinality(Keys(data.Recipes[m.rule].Requires))

\* -------------------------------------------------------------------- C12
\* C12: in the list the ranking callback returns for a produce_<item> task, no
\* method with cycle risk comes before a method without, whatever the
\* methods' Time and number of required tools.
C12_CycleRiskLast ==
    Ranked => \A i, j \in DOMAIN last.ret :
                 (i < j) => ~(CycleRisk(last.ret[i]) /\ ~CycleRisk(last.ret[j]))

\* -------------------------------------------------------------------- C13
\* C13: in the returned list, among methods of the same cycle-risk status, no
\* method that requires more distinct tools comes before one that requires
\* fewer, whatever their Time.
C13_FewerToolsFirst ==
    Ranked => \A i, j \in DOMAIN last.ret :
                 (i < j /\ CycleRisk(last.ret[i]) = CycleRisk(last.ret[j]))
                    => ToolCount(last.ret[i]) <= ToolCount(last.ret[j])

\* -------------------------------------------------------------------- C14
\* C14: methods of equal score are returned in recipe declaration order when
\* the callback is applied to the list declare_methods registered, also when
\* their Time values differ.
C14_TiesInDeclarationOrder ==
    Ranked => \A i, j \in DOMAIN last.ret :
                 (i < j /\ score(data, last.ret[i], _ancestor_items(last.call.calling_stack))
                            = score(data, last.ret[j], _ancestor_items(last.call.calling_stack)))
                    => last.ret[i].rule < last.ret[j].rule

\* -------------------------------------------------------------------- C15
\* C15: whenever the search runs, the operators, the methods, the pruning
\* checks and the ranking callback have all been registered with the engine.
C15_RegisteredBeforeSearch ==
    pc = "seek" => /\ operators = declare_operators(data, <<>>)
                   /\ methods = declare_methods(data, ImportedMethods)
                   /\ checks = <<"prune_iron_axe", "prune_axes">>
                   /\ ordering # "none"

\* -------------------------------------------------------------------- C16
\* C16: a call of any method (check_enough, produce_enough, produce, a recipe
\* method) leaves the state as it was before the call, whatever it returns.
C16_MethodsLeaveState ==
    last.call.fn \in {"check_enough", "produce_enough", "produce", "method"}
        => ustate = last.pre

\* two recipes whose operator names are the same identifier
NameClash(d) ==
    \E i, j \in DOMAIN d.Recipes : i # j /\ OpName(d.Recipes[i].name) = OpName(d.Recipes[j].name)

\* -------------------------------------------------------------------- C17
\* C17: the search is never entered with a Goal or Initial entry that names
\* an undeclared item, nor with two recipes whose names normalise to the same
\* identifier; every recipe keeps its own operator.
C17_InputErrorsAtLoad ==
    pc = "seek" => /\ GoalDeclared(data) /\ InitialDeclared(data)
                   /\ ~NameClash(data)
                   /\ \A i \in DOMAIN data.Recipes :
                         Get(operators, OpName(data.Recipes[i].name), 0) = i

\* -------------------------------------------------------------------- C18
\* C18: each registered pruning check, consulted on a task of any of the four
\* task shapes, returns a boolean and does not raise.
C18_ChecksReturnBoolean ==
    last.call.fn \in {"prune_iron_axe", "prune_axes"}
        => (last.ret.exc = "none" /\ last.ret.val \in BOOLEAN)

\* -------------------------------------------------------------------- C19
\* C19: when an op_<recipe> task is about to be applied (the have_enough
\* sub-tasks before it in its method have all been resolved), the recipe's
\* Requires and Consumes quantities are all in stock.
C19_StockHeldForOperator ==
    (pc = "seek" /\ stack # <<>> /\ Top.phase = "operator" /\ Top.tasks # <<>>
       /\ Top.tasks[1][1] \in Keys(operators))
        => LET rule == data.Recipes[Get(operators, Top.tasks[1][1], 0)]
               state == heap[Top.st]
           IN  /\ AllAtLeast(rule.Requires, 1, state, ID)
               /\ AllAtLeast(rule.Consumes, 1, state, ID)

\* the tools that the operators of a plan produce
Crafted(plan) ==
    UNION {Keys(data.Recipes[Get(operators, plan[i][1], 0)].Produces) : i \in DOMAIN plan}

\* -------------------------------------------------------------------- C20
\* C20: in every state of the search a tool's made_ flag is set only if an
\* operator producing that tool has been applied on the branch.
C20_MadeOnlyWhenCrafted ==
    pc = "seek" => \A k \in DOMAIN stack :
                      \A tool \in DOMAIN heap[stack[k].st].made :
                         heap[stack[k].st].made[tool][ID] => tool \in Crafted(stack[k].plan)
====
